---- MODULE Spec2Model ----
(***************************************************************************)
(* A model of the AirBnB_clone_v3 REST API (api/v1): the storage the       *)
(* handlers read and write, one action per route handler, and the          *)
(* request/response cycle of the Flask application.                        *)
(*                                                                         *)
(* A request is served by one handler, which reads the JSON body, reads    *)
(* and writes storage and produces a response; close_session (the          *)
(* teardown of the application context) ends the request.                  *)
(*                                                                         *)
(* The server runs threaded: threads holds the requests that are served    *)
(* in parallel, each at its own place in its handler.                      *)
(***************************************************************************)
EXTENDS Integers, Sequences, FiniteSets, TLC

VARIABLES storage, request, response, phase, threads

vars == <<storage, request, response, phase, threads>>

(***************************************************************************)
(* Bounds of the model.                                                    *)
(***************************************************************************)
MaxStates == 2
MaxCities == 2
MaxPlaces == 2
MaxAmenities == 2
MaxUsers == 1
\* the number of identifiers a places_search body lists in states + cities,
\* and the number it lists in amenities
MaxList == 2

StateIds == 1..MaxStates
CityIds == 1..MaxCities
PlaceIds == 1..MaxPlaces
AmenityIds == 1..MaxAmenities
UserIds == 1..MaxUsers

\* the requests the threaded server handles in parallel
MaxThreads == 2

Threads == 1..MaxThreads

(***************************************************************************)
(* Sequence helpers.                                                       *)
(***************************************************************************)
Range(s) == {s[i] : i \in DOMAIN s}

SeqsUpTo(S, n) == UNION {[1..k -> S] : k \in 0..n}

\* the elements of a finite set of integers, in ascending order
RECURSIVE SortedSeq(_)
SortedSeq(S) ==
    IF S = {} THEN <<>>
    ELSE LET m == CHOOSE x \in S : \A y \in S : x <= y
         IN <<m>> \o SortedSeq(S \ {m})

RECURSIVE Flatten(_)
Flatten(ss) == IF ss = <<>> THEN <<>> ELSE Head(ss) \o Flatten(Tail(ss))

Count(s, x) == Cardinality({i \in DOMAIN s : s[i] = x})

NoDuplicates(s) == \A i, j \in DOMAIN s : s[i] = s[j] => i = j

\* list.remove(x): the list without the first occurrence of x
Remove(s, x) ==
    LET i == CHOOSE k \in DOMAIN s : s[k] = x /\ \A j \in 1..(k - 1) : s[j] # x
    IN SubSeq(s, 1, i - 1) \o SubSeq(s, i + 1, Len(s))

(***************************************************************************)
(* JSON bodies as request.get_json(silent=True) returns them.  None stands *)
(* for an absent body, a body that is not JSON and the JSON null.  A str   *)
(* is the sequence of its characters.                                      *)
(***************************************************************************)
JNone == [type |-> "none"]
JDict(d) == [type |-> "dict", d |-> d]
JList(items) == [type |-> "list", items |-> items]
JStr(chars) == [type |-> "str", chars |-> chars]
JInt(n) == [type |-> "int", n |-> n]
JBool(b) == [type |-> "bool", b |-> b]

\* the characters of the keys the handlers look up
Chars(key) ==
    CASE key = "states" -> <<"s", "t", "a", "t", "e", "s">>
      [] key = "cities" -> <<"c", "i", "t", "i", "e", "s">>
      [] key = "amenities" -> <<"a", "m", "e", "n", "i", "t", "i", "e", "s">>
      [] OTHER -> <<"?">>

\* Python truth value of a JSON value
Truthy(data) ==
    CASE data.type = "none" -> FALSE
      [] data.type = "dict" -> DOMAIN data.d # {}
      [] data.type = "list" -> data.items # <<>>
      [] data.type = "str" -> data.chars # <<>>
      [] data.type = "int" -> data.n # 0
      [] data.type = "bool" -> data.b

IsSubstring(k, s) ==
    \E i \in 1..(Len(s) - Len(k) + 1) : SubSeq(s, i, i + Len(k) - 1) = k

\* Python `key in data` for a str key: "T", "F" or "TypeError"
PyIn(key, data) ==
    CASE data.type = "dict" -> IF key \in DOMAIN data.d THEN "T" ELSE "F"
      [] data.type = "list" -> IF key \in Range(data.items) THEN "T" ELSE "F"
      [] data.type = "str" ->
            IF IsSubstring(Chars(key), data.chars) THEN "T" ELSE "F"
      [] OTHER -> "TypeError"

\* Python `data[key]` for a str key raises TypeError unless data is a dict
CanSubscript(data) == data.type = "dict"

(***************************************************************************)
(* The storage collaborator (models.storage) and the relationships of the  *)
(* model classes.  storage.State, storage.Amenity and storage.User are the *)
(* sets of stored identifiers; storage.City and storage.Place map a stored *)
(* identifier to the object's foreign keys, as storage.Review does.        *)
(* storage.Attrs holds the other attributes of every stored object, by     *)
(* class and identifier; storage.Ids counts the identifiers handed out per *)
(* class (an identifier is a fresh uuid: it is never handed out twice).    *)
(***************************************************************************)
Classes == {"State", "City", "Place", "Amenity", "User", "Review"}

EmptyStorage ==
    [State |-> {}, City |-> <<>>, Place |-> <<>>, Amenity |-> {}, User |-> {},
     Review |-> <<>>,
     Attrs |-> [c \in Classes |-> <<>>],
     Ids |-> [c \in Classes |-> 0]]

\* storage.all(cls): the identifiers of the stored objects of a class
All(st, cls) ==
    CASE cls = "State" -> st.State
      [] cls = "City" -> DOMAIN st.City
      [] cls = "Place" -> DOMAIN st.Place
      [] cls = "Amenity" -> st.Amenity
      [] cls = "User" -> st.User
      [] cls = "Review" -> DOMAIN st.Review

\* storage.get(cls, id) is not None
Get(st, cls, id) == id \in All(st, cls)

\* storage.count(cls)
StorageCount(st, cls) == Cardinality(All(st, cls))

\* the identifier a new object of a class gets
NewId(st, cls) == st.Ids[cls] + 1

\* the attributes BaseModel.__init__(**kwargs) sets, but for the foreign keys
Kwargs(d, keys) ==
    [k \in keys \cup {"created_at"} |-> IF k \in DOMAIN d THEN d[k] ELSE 0]

\* a function with one more argument
With(f, x, v) == [y \in DOMAIN f \cup {x} |-> IF y = x THEN v ELSE f[y]]

\* a function without one argument
Without(f, x) == [y \in DOMAIN f \ {x} |-> f[y]]

\* the new object's identifier is taken and its attributes are stored
Registered(st, cls, id, attrs) ==
    [st EXCEPT !.Ids[cls] = id, !.Attrs[cls] = With(@, id, attrs)]

\* state.cities, city.places and place.amenities
StateCities(st, state_id) ==
    SortedSeq({c \in DOMAIN st.City : st.City[c].state_id = state_id})

CityPlaces(st, city_id) ==
    SortedSeq({p \in DOMAIN st.Place : st.Place[p].city_id = city_id})

PlaceAmenities(st, place_id) == st.Place[place_id].amenities

\* storage.all(Place).values()
AllPlaces(st) == SortedSeq(DOMAIN st.Place)

(***************************************************************************)
(* Responses.  status 500 is Flask's answer to an exception no handler     *)
(* catches.  places is the JSON list a listing returns, id the identifier  *)
(* of the object a create or an association returns.                       *)
(***************************************************************************)
Response(status, error, places, id) ==
    [status |-> status, error |-> error, places |-> places, id |-> id,
     mimetype |-> "application/json", stats |-> <<>>]

NoResponse == Response(0, "", <<>>, 0)

\* abort(code, description)
Abort(status, description) ==
    [Response(status, description, <<>>, 0) EXCEPT !.mimetype = "text/html"]

\* abort(404), answered by the application's 404 handler
not_found == Response(404, "Not found", <<>>, 0)

\* an uncaught TypeError
InternalServerError ==
    [Response(500, "TypeError", <<>>, 0) EXCEPT !.mimetype = "text/html"]

\* an uncaught KeyError
KeyErrorResponse ==
    [Response(500, "KeyError", <<>>, 0) EXCEPT !.mimetype = "text/html"]

Ok(val) == [ok |-> TRUE, val |-> val]
Raise(resp) == [ok |-> FALSE, resp |-> resp]

(***************************************************************************)
(* places_search.                                                          *)
(***************************************************************************)
\* get_places without the abort: an object that is not found has no places
get_places_Skip(st, id, cls) ==
    IF ~Get(st, cls, id) THEN Ok(<<>>)
    ELSE IF cls = "State"
         THEN Ok(Flatten([i \in DOMAIN StateCities(st, id) |->
                              CityPlaces(st, StateCities(st, id)[i])]))
         ELSE Ok(CityPlaces(st, id))

\* get_places(id, cls): the places of a state or of a city, or abort(404)
get_places(st, id, cls) ==
    IF ~Get(st, cls, id) THEN Raise(not_found)
    ELSE IF cls = "State"
         THEN Ok(Flatten([i \in DOMAIN StateCities(st, id) |->
                              CityPlaces(st, StateCities(st, id)[i])]))
         ELSE Ok(CityPlaces(st, id))

\* for x in ids: places.extend(get_places(x, cls))
RECURSIVE ExtendAll(_, _, _)
ExtendAll(st, ids, cls) ==
    IF ids = <<>> THEN Ok(<<>>)
    ELSE LET h == get_places(st, Head(ids), cls)
         IN IF ~h.ok THEN h
            ELSE LET r == ExtendAll(st, Tail(ids), cls)
                 IN IF ~r.ok THEN r ELSE Ok(h.val \o r.val)

\* the places as collected, not deduplicated
Dedup_Keep(s) == s

\* {place.id: place for place in places}.values()
RECURSIVE Dedup(_)
Dedup(s) ==
    IF s = <<>> THEN <<>>
    ELSE LET front == Dedup(SubSeq(s, 1, Len(s) - 1))
             last == s[Len(s)]
         IN IF last \in Range(front) THEN front ELSE Append(front, last)

\* the `if 'states' in data` and `if 'cities' in data` blocks
Collect(st, data, key, cls) ==
    LET has == PyIn(key, data)
    IN IF has = "TypeError" THEN Raise(InternalServerError)
       ELSE IF has = "F" THEN Ok(<<>>)
       ELSE IF ~CanSubscript(data) THEN Raise(InternalServerError)
       ELSE ExtendAll(st, data.d[key], cls)

\* `elif 'cities' in data`: the cities are read only when no states are given
Candidates_Elif(st, data) ==
    IF ~Truthy(data) THEN Ok(AllPlaces(st))
    ELSE LET a == Collect(st, data, "states", "State")
         IN IF ~a.ok THEN a
            ELSE IF PyIn("states", data) = "T" THEN Ok(Dedup(a.val))
            ELSE LET b == Collect(st, data, "cities", "City")
                 IN IF ~b.ok THEN b ELSE Ok(Dedup(b.val))

\* the candidate places before the fallback
Candidates(st, data) ==
    IF ~Truthy(data) THEN Ok(AllPlaces(st))
    ELSE LET a == Collect(st, data, "states", "State")
         IN IF ~a.ok THEN a
            ELSE LET b == Collect(st, data, "cities", "City")
                 IN IF ~b.ok THEN b ELSE Ok(Dedup(a.val \o b.val))

\* OR semantics: the place has one of the wanted amenities
HasAmenities_Any(st, place_id, wanted) ==
    Range(wanted) \cap Range(PlaceAmenities(st, place_id)) # {}

\* set(data['amenities']).issubset({amenity.id for amenity in place.amenities})
HasAmenities(st, place_id, wanted) ==
    Range(wanted) \subseteq Range(PlaceAmenities(st, place_id))

\* the amenities of the body are not looked at
FilterAmenities_Skip(st, data, places) == Ok(places)

\* the amenities filter on the candidate places
FilterAmenities(st, data, places) ==
    LET has == PyIn("amenities", data)
    IN IF has = "TypeError" THEN Raise(InternalServerError)
       ELSE IF has = "F" THEN Ok(places)
       ELSE IF ~CanSubscript(data) THEN Raise(InternalServerError)
       ELSE IF data.d["amenities"] = <<>> THEN Ok(places)
       ELSE Ok(SelectSeq(places,
                   LAMBDA p : HasAmenities(st, p, data.d["amenities"])))

\* no fallback: an empty collection stays empty
Fallback_None(st, places) == places

\* if not places: places = storage.all(Place).values()
Fallback(st, places) == IF places = <<>> THEN AllPlaces(st) ELSE places

\* the response of places_search
SearchResponse(st, data) ==
    IF data.type = "none" THEN Abort(400, "Not a JSON")
    ELSE LET c == Candidates(st, data)
         IN IF ~c.ok THEN c.resp
            ELSE LET f == FilterAmenities(st, data, Fallback(st, c.val))
                 IN IF ~f.ok THEN f.resp ELSE Response(200, "", f.val, 0)

\* the filter done in place: every place keeps only the amenities asked for
search_place_Trim(st, data) ==
    [st |-> IF PyIn("amenities", data) = "T" /\ CanSubscript(data)
            THEN [st EXCEPT !.Place =
                     [p \in DOMAIN @ |->
                         [@[p] EXCEPT !.amenities =
                             SelectSeq(@, LAMBDA a :
                                 a \in Range(data.d["amenities"]))]]]
            ELSE st,
     resp |-> SearchResponse(st, data)]

\* the handler reads storage and writes nothing
search_place(st, data) == [st |-> st, resp |-> SearchResponse(st, data)]

(***************************************************************************)
(* The place-amenity association.                                          *)
(***************************************************************************)
\* without the membership test: the amenity is appended every time
create_place_amenity_NoCheck(st, place_id, amenity_id) ==
    IF ~Get(st, "Place", place_id) THEN [st |-> st, resp |-> not_found]
    ELSE IF ~Get(st, "Amenity", amenity_id) THEN [st |-> st, resp |-> not_found]
    ELSE [st |-> [st EXCEPT !.Place[place_id].amenities = Append(@, amenity_id)],
          resp |-> Response(201, "", <<>>, amenity_id)]

create_place_amenity(st, place_id, amenity_id) ==
    IF ~Get(st, "Place", place_id) THEN [st |-> st, resp |-> not_found]
    ELSE IF ~Get(st, "Amenity", amenity_id) THEN [st |-> st, resp |-> not_found]
    ELSE IF amenity_id \in Range(PlaceAmenities(st, place_id))
    THEN [st |-> st, resp |-> Response(200, "", <<>>, amenity_id)]
    ELSE [st |-> [st EXCEPT !.Place[place_id].amenities = Append(@, amenity_id)],
          resp |-> Response(201, "", <<>>, amenity_id)]

\* the whole collection is dropped instead of the one amenity
delete_place_amenity_Clear(st, place_id, amenity_id) ==
    IF ~Get(st, "Place", place_id) THEN [st |-> st, resp |-> not_found]
    ELSE IF ~Get(st, "Amenity", amenity_id) THEN [st |-> st, resp |-> not_found]
    ELSE IF amenity_id \notin Range(PlaceAmenities(st, place_id))
    THEN [st |-> st, resp |-> not_found]
    ELSE [st |-> [st EXCEPT !.Place[place_id].amenities = <<>>],
          resp |-> Response(200, "", <<>>, 0)]

delete_place_amenity(st, place_id, amenity_id) ==
    IF ~Get(st, "Place", place_id) THEN [st |-> st, resp |-> not_found]
    ELSE IF ~Get(st, "Amenity", amenity_id) THEN [st |-> st, resp |-> not_found]
    ELSE IF amenity_id \notin Range(PlaceAmenities(st, place_id))
    THEN [st |-> st, resp |-> not_found]
    ELSE [st |-> [st EXCEPT !.Place[place_id].amenities = Remove(@, amenity_id)],
          resp |-> Response(200, "", <<>>, 0)]

(***************************************************************************)
(* The creates that populate storage.                                      *)
(***************************************************************************)
create_state(st, data) ==
    IF data.type = "none" THEN [st |-> st, resp |-> Abort(400, "Not a JSON")]
    ELSE IF PyIn("name", data) # "T"
    THEN [st |-> st, resp |-> Abort(400, "Missing name")]
    ELSE LET id == NewId(st, "State")
         IN [st |-> Registered([st EXCEPT !.State = @ \cup {id}], "State", id,
                                Kwargs(data.d, {"name"})),
             resp |-> Response(201, "", <<>>, id)]

\* a create that stores the object before it checks the name
create_amenity_SaveFirst(st, data) ==
    IF data.type = "none" THEN [st |-> st, resp |-> Abort(400, "Not a JSON")]
    ELSE LET id == NewId(st, "Amenity")
             saved == Registered([st EXCEPT !.Amenity = @ \cup {id}], "Amenity",
                                 id, Kwargs(<<>>, {}))
         IN IF PyIn("name", data) # "T"
            THEN [st |-> saved, resp |-> Abort(400, "Missing name")]
            ELSE [st |-> saved, resp |-> Response(201, "", <<>>, id)]

create_amenity(st, data) ==
    IF data.type = "none" THEN [st |-> st, resp |-> Abort(400, "Not a JSON")]
    ELSE IF PyIn("name", data) # "T"
    THEN [st |-> st, resp |-> Abort(400, "Missing name")]
    ELSE LET id == NewId(st, "Amenity")
         IN [st |-> Registered([st EXCEPT !.Amenity = @ \cup {id}], "Amenity",
                                id, Kwargs(data.d, DOMAIN data.d)),
             resp |-> Response(201, "", <<>>, id)]

create_user(st, data) ==
    IF data.type = "none" THEN [st |-> st, resp |-> Abort(400, "Not a JSON")]
    ELSE IF PyIn("email", data) # "T"
    THEN [st |-> st, resp |-> Abort(400, "Missing email")]
    ELSE IF PyIn("password", data) # "T"
    THEN [st |-> st, resp |-> Abort(400, "Missing password")]
    ELSE LET id == NewId(st, "User")
         IN [st |-> Registered([st EXCEPT !.User = @ \cup {id}], "User", id,
                                Kwargs(data.d, DOMAIN data.d)),
             resp |-> Response(201, "", <<>>, id)]

\* a create that keeps the state_id of the payload when it has one
create_city_PayloadParent(st, state_id, data) ==
    IF ~Get(st, "State", state_id) THEN [st |-> st, resp |-> not_found]
    ELSE IF data.type = "none"
    THEN [st |-> st, resp |-> Abort(400, "Not a JSON")]
    ELSE IF PyIn("name", data) # "T"
    THEN [st |-> st, resp |-> Abort(400, "Missing name")]
    ELSE LET id == NewId(st, "City")
             parent == IF "state_id" \in DOMAIN data.d
                       THEN data.d["state_id"] ELSE state_id
         IN [st |-> Registered(
                        [st EXCEPT !.City = With(@, id, [state_id |-> parent])],
                        "City", id, Kwargs(data.d, DOMAIN data.d \ {"state_id"})),
             resp |-> Response(201, "", <<>>, id)]

create_city(st, state_id, data) ==
    IF ~Get(st, "State", state_id) THEN [st |-> st, resp |-> not_found]
    ELSE IF data.type = "none"
    THEN [st |-> st, resp |-> Abort(400, "Not a JSON")]
    ELSE IF PyIn("name", data) # "T"
    THEN [st |-> st, resp |-> Abort(400, "Missing name")]
    ELSE LET id == NewId(st, "City")
         IN [st |-> Registered(
                        [st EXCEPT !.City = With(@, id, [state_id |-> state_id])],
                        "City", id, Kwargs(data.d, DOMAIN data.d \ {"state_id"})),
             resp |-> Response(201, "", <<>>, id)]

\* the field checks done first: the user is looked up after the name check
create_place_NameFirst(st, city_id, data) ==
    IF ~Get(st, "City", city_id) THEN [st |-> st, resp |-> not_found]
    ELSE IF data.type = "none"
    THEN [st |-> st, resp |-> Abort(400, "Not a JSON")]
    ELSE IF PyIn("user_id", data) # "T"
    THEN [st |-> st, resp |-> Abort(400, "Missing user_id")]
    ELSE IF PyIn("name", data) # "T"
    THEN [st |-> st, resp |-> Abort(400, "Missing name")]
    ELSE IF ~Get(st, "User", data.d["user_id"])
    THEN [st |-> st, resp |-> not_found]
    ELSE LET id == NewId(st, "Place")
         IN [st |-> Registered(
                        [st EXCEPT !.Place =
                            With(@, id, [city_id |-> city_id,
                                         user_id |-> data.d["user_id"],
                                         amenities |-> <<>>])],
                        "Place", id,
                        Kwargs(data.d, DOMAIN data.d \ {"city_id", "user_id"})),
             resp |-> Response(201, "", <<>>, id)]

create_place(st, city_id, data) ==
    IF ~Get(st, "City", city_id) THEN [st |-> st, resp |-> not_found]
    ELSE IF data.type = "none"
    THEN [st |-> st, resp |-> Abort(400, "Not a JSON")]
    ELSE IF PyIn("user_id", data) # "T"
    THEN [st |-> st, resp |-> Abort(400, "Missing user_id")]
    ELSE IF ~Get(st, "User", data.d["user_id"])
    THEN [st |-> st, resp |-> not_found]
    ELSE IF PyIn("name", data) # "T"
    THEN [st |-> st, resp |-> Abort(400, "Missing name")]
    ELSE LET id == NewId(st, "Place")
         IN [st |-> Registered(
                        [st EXCEPT !.Place =
                            With(@, id, [city_id |-> city_id,
                                         user_id |-> data.d["user_id"],
                                         amenities |-> <<>>])],
                        "Place", id,
                        Kwargs(data.d, DOMAIN data.d \ {"city_id", "user_id"})),
             resp |-> Response(201, "", <<>>, id)]

(***************************************************************************)
(* The requests the model sends.                                           *)
(***************************************************************************)
SearchKeys == {"states", "cities", "amenities"}

KeyIds(key) ==
    CASE key = "states" -> StateIds
      [] key = "cities" -> CityIds
      [] key = "amenities" -> AmenityIds

LenOr0(d, key) == IF key \in DOMAIN d THEN Len(d[key]) ELSE 0

\* JSON objects with any of the keys states, cities and amenities, each a list
\* of identifiers, and the object {"other": []}
SearchDicts ==
    UNION {{d \in [K -> SeqsUpTo(StateIds \cup CityIds \cup AmenityIds, MaxList)] :
                /\ \A k \in K : Range(d[k]) \subseteq KeyIds(k)
                /\ LenOr0(d, "states") + LenOr0(d, "cities") <= MaxList} :
           K \in SUBSET SearchKeys}
    \cup {[k \in {"other"} |-> <<>>]}

\* JSON values that are no object
NonObjects ==
    {JList(<<>>), JList(<<"states">>), JList(<<"amenities">>), JList(<<"x">>),
     JStr(<<>>), JStr(Chars("states")), JStr(<<"x">>),
     JInt(0), JInt(5), JBool(FALSE), JBool(TRUE)}

SearchBodies == {JNone} \cup {JDict(d) : d \in SearchDicts} \cup NonObjects

\* the bodies of the creates: no JSON, or an object with some of the keys
CreateBodies(keys, ids) ==
    {JNone} \cup UNION {{JDict([k \in K |-> v]) : v \in ids} : K \in SUBSET keys}

Request(op, path, data) == [op |-> op, path |-> path, data |-> data]

NoRequest == Request("", <<>>, JNone)

(***************************************************************************)
(* The state machine.                                                      *)
(***************************************************************************)
\* a thread of the server that handles no request
IdleThread == [pc |-> "idle", place_id |-> 0, amenity_id |-> 0, status |-> 0]

Init ==
    /\ storage = EmptyStorage
    /\ request = NoRequest
    /\ response = NoResponse
    /\ phase = "idle"
    /\ threads = [t \in Threads |-> IdleThread]

\* a handler serves a request: storage and the response are what it returns
Serve(req, out) ==
    /\ phase = "idle"
    /\ request' = req
    /\ storage' = out.st
    /\ response' = out.resp
    /\ phase' = "responded"
    /\ UNCHANGED threads

\* the identifier pools are finite: a create that stores needs a free one
Room(out, cls, max) == out.resp.status = 201 => storage.Ids[cls] < max

SearchPlace ==
    \E data \in SearchBodies :
        Serve(Request("search_place", <<>>, data), search_place(storage, data))

CreatePlaceAmenity ==
    \E p \in PlaceIds, a \in AmenityIds :
        Serve(Request("create_place_amenity", <<p, a>>, JNone),
              create_place_amenity(storage, p, a))

DeletePlaceAmenity ==
    \E p \in PlaceIds, a \in AmenityIds :
        Serve(Request("delete_place_amenity", <<p, a>>, JNone),
              delete_place_amenity(storage, p, a))

CreateStateIn(max) ==
    \E data \in CreateBodies({"name"}, {1}) :
        LET out == create_state(storage, data)
        IN Room(out, "State", max)
           /\ Serve(Request("create_state", <<>>, data), out)

CreateAmenityIn(max) ==
    \E data \in CreateBodies({"name"}, {1}) :
        LET out == create_amenity(storage, data)
        IN Room(out, "Amenity", max)
           /\ Serve(Request("create_amenity", <<>>, data), out)

CreateUserIn(max) ==
    \E data \in CreateBodies({"email", "password"}, {1}) :
        LET out == create_user(storage, data)
        IN Room(out, "User", max)
           /\ Serve(Request("create_user", <<>>, data), out)

CreateCityIn(max) ==
    \E s \in StateIds, data \in CreateBodies({"name"}, {1}) :
        LET out == create_city(storage, s, data)
        IN Room(out, "City", max)
           /\ Serve(Request("create_city", <<s>>, data), out)

CreatePlaceIn(max) ==
    \E c \in CityIds, data \in CreateBodies({"user_id", "name"}, UserIds) :
        LET out == create_place(storage, c, data)
        IN Room(out, "Place", max)
           /\ Serve(Request("create_place", <<c>>, data), out)

CreateState == CreateStateIn(MaxStates)

CreateAmenity == CreateAmenityIn(MaxAmenities)

CreateUser == CreateUserIn(MaxUsers)

CreateCity == CreateCityIn(MaxCities)

CreatePlace == CreatePlaceIn(MaxPlaces)

\* the teardown of the application context ends the request
close_session ==
    /\ phase = "responded"
    /\ phase' = "idle"
    /\ request' = NoRequest
    /\ response' = NoResponse
    /\ UNCHANGED <<storage, threads>>

Next ==
    \/ SearchPlace
    \/ CreatePlaceAmenity
    \/ DeletePlaceAmenity
    \/ CreateState
    \/ CreateAmenity
    \/ CreateUser
    \/ CreateCity
    \/ CreatePlace
    \/ close_session

Spec == Init /\ [][Next]_vars

(***************************************************************************)
(* Properties of places_search.  They are stated on the state in which the *)
(* response to a search is pending, over the request that was served.      *)
(***************************************************************************)
Searched == phase = "responded" /\ request.op = "search_place"

SearchedObject == Searched /\ request.data.type = "dict"

\* the list a search body gives for a key, empty when the key is absent
ListOf(key) ==
    IF key \in DOMAIN request.data.d THEN request.data.d[key] ELSE <<>>

AllResolve ==
    /\ Range(ListOf("states")) \subseteq storage.State
    /\ Range(ListOf("cities")) \subseteq DOMAIN storage.City

InListedCity(p) == storage.Place[p].city_id \in Range(ListOf("cities"))

InListedState(p) ==
    /\ storage.Place[p].city_id \in DOMAIN storage.City
    /\ storage.City[storage.Place[p].city_id].state_id \in Range(ListOf("states"))

\* the places of a city of a listed state or of a listed city
ListedPlaces == {p \in DOMAIN storage.Place : InListedCity(p) \/ InListedState(p)}

\* the place has every amenity the search body lists
Superset(p) ==
    Range(ListOf("amenities")) \subseteq Range(storage.Place[p].amenities)

Returned == Range(response.places)

\* C1: a search whose body is an object, whose listed states and cities all
\* resolve and reach at least one place, returns exactly the places of a
\* city of a listed state or of a listed city that have every listed amenity.
C1_SearchResult ==
    (SearchedObject /\ AllResolve /\ ListedPlaces # {})
        => /\ response.status = 200
           /\ Returned = {p \in ListedPlaces : Superset(p)}

C1_Witness ==
    /\ SearchedObject /\ AllResolve
    /\ ListOf("states") # <<>> /\ ListOf("cities") # <<>>
    /\ ListOf("amenities") # <<>>
    /\ Cardinality(ListedPlaces) = 2
    /\ Cardinality(Returned) = 1

\* C2: a search with a non-empty amenities list and no states or cities
\* returns exactly the places in storage that have every listed amenity.
C2_AmenitiesOnly ==
    (SearchedObject /\ ListOf("amenities") # <<>>
        /\ ListOf("states") = <<>> /\ ListOf("cities") = <<>>)
        => /\ response.status = 200
           /\ Returned = {p \in DOMAIN storage.Place : Superset(p)}

C2_Witness ==
    /\ SearchedObject
    /\ DOMAIN request.data.d = {"amenities"}
    /\ Cardinality(Range(ListOf("amenities"))) = 2
    /\ Cardinality(DOMAIN storage.Place) = 2
    /\ Cardinality(Returned) = 1
    /\ \E p \in DOMAIN storage.Place : Len(storage.Place[p].amenities) = 1

\* C3: no place identifier appears twice in the result of a successful search.
C3_NoDuplicatePlaces ==
    (Searched /\ response.status = 200) => NoDuplicates(response.places)

C3_Witness ==
    /\ SearchedObject /\ response.status = 200
    /\ \E p \in Returned : InListedCity(p) /\ InListedState(p)

\* C4: a search whose body is absent or is no JSON object is answered with
\* 400 "Not a JSON".
C4_NonObjectRejected ==
    (Searched /\ request.data.type # "dict")
        => response.status = 400 /\ response.error = "Not a JSON"

\* C5: a search that lists a state or a city that does not resolve is
\* answered with 404 and returns no place list.
C5_UnresolvedIs404 ==
    (SearchedObject /\ ~AllResolve)
        => response.status = 404 /\ response.places = <<>>

C5_Witness ==
    /\ SearchedObject /\ ~AllResolve
    /\ ListedPlaces # {}
    /\ response.status = 404

\* C6: a search whose body is the empty object, or an object in which
\* states, cities and amenities are absent or empty, returns every place.
C6_NoFilterReturnsAll ==
    (SearchedObject /\ ListOf("states") = <<>> /\ ListOf("cities") = <<>>
        /\ ListOf("amenities") = <<>>)
        => /\ response.status = 200
           /\ Returned = DOMAIN storage.Place
           /\ Len(response.places) = Cardinality(DOMAIN storage.Place)

C6_Witness ==
    /\ SearchedObject
    /\ DOMAIN request.data.d = {}
    /\ Cardinality(Returned) = 2

IsStep(op) == phase = "idle" /\ phase' = "responded" /\ request'.op = op

\* C8: places_search leaves storage as it was, whatever it answers.
C8_SearchReadsOnly == [][IsStep("search_place") => storage' = storage]_vars

C8_Witness ==
    /\ SearchedObject /\ response.status = 200
    /\ ListOf("amenities") # <<>>
    /\ Returned # {} /\ Returned # DOMAIN storage.Place

(***************************************************************************)
(* Properties of the place-amenity association.  They are stated on the    *)
(* step in which the handler serves the request: unprimed storage is the   *)
(* storage before the request, primed storage the storage after it.        *)
(***************************************************************************)
Associated(st, p, a) == a \in Range(st.Place[p].amenities)

BothExist(st, p, a) == p \in DOMAIN st.Place /\ a \in st.Amenity

\* storage with the amenities of place p replaced
WithAmenities(st, p, amenities) == [st EXCEPT !.Place[p].amenities = amenities]

\* C9: for an existing place and amenity, a POST of a pair that is not
\* associated appends it and answers 201; a POST of an associated pair
\* answers 200 and changes nothing; after either the pair is there exactly
\* once, and it stays until a DELETE of it while place and amenity exist.
C9_PostStep ==
    IsStep("create_place_amenity") =>
        LET p == request'.path[1]
            a == request'.path[2]
        IN BothExist(storage, p, a) =>
            /\ ~Associated(storage, p, a) =>
                  /\ response'.status = 201
                  /\ storage' = WithAmenities(storage, p,
                                    Append(storage.Place[p].amenities, a))
            /\ Associated(storage, p, a) =>
                  /\ response'.status = 200
                  /\ storage' = storage
            /\ Count(storage'.Place[p].amenities, a) = 1

C9_PairStays ==
    \A p \in DOMAIN storage.Place, a \in storage.Amenity :
        (/\ Associated(storage, p, a)
         /\ BothExist(storage', p, a)
         /\ ~(IsStep("delete_place_amenity") /\ request'.path = <<p, a>>))
            => Count(storage'.Place[p].amenities, a) = 1

C9_PostIdempotent == [][C9_PostStep /\ C9_PairStays]_vars

C9_Witness ==
    /\ phase = "responded" /\ request.op = "create_place_amenity"
    /\ response.status = 200
    /\ Len(storage.Place[request.path[1]].amenities) = 2

\* C10: a DELETE of a pair answers 404 and changes nothing when the place
\* or the amenity does not exist or the pair is not associated; otherwise
\* it removes that pair alone and answers 200, and then a DELETE of the
\* pair would answer 404 and a POST of it 201.
C10_DeleteStep ==
    IsStep("delete_place_amenity") =>
        LET p == request'.path[1]
            a == request'.path[2]
        IN IF BothExist(storage, p, a) /\ Associated(storage, p, a)
           THEN /\ response'.status = 200
                /\ storage' = WithAmenities(storage, p,
                                  SelectSeq(storage.Place[p].amenities,
                                            LAMBDA x : x # a))
                /\ ~Associated(storage', p, a)
                /\ delete_place_amenity(storage', p, a).resp.status = 404
                /\ create_place_amenity(storage', p, a).resp.status = 201
           ELSE /\ response'.status = 404
                /\ response'.error = "Not found"
                /\ storage' = storage

C10_DeletePair == [][C10_DeleteStep]_vars

C10_Witness ==
    /\ phase = "responded" /\ request.op = "delete_place_amenity"
    /\ response.status = 200
    /\ Len(storage.Place[request.path[1]].amenities) = 1

(***************************************************************************)
(* Properties of the creates.                                              *)
(***************************************************************************)
\* C13: create-place on an existing city with a JSON object: without
\* user_id the answer is 400 "Missing user_id"; with a user_id that does not
\* resolve it is 404, also when name is missing; only with a user that
\* resolves is a missing name answered 400 "Missing name".  No place is
\* created in any of these cases.
C13_CreatePlaceStep ==
    (IsStep("create_place")
        /\ request'.path[1] \in DOMAIN storage.City
        /\ request'.data.type = "dict") =>
        LET d == request'.data.d
            refused == storage' = storage
        IN /\ "user_id" \notin DOMAIN d =>
                 /\ response'.status = 400
                 /\ response'.error = "Missing user_id"
                 /\ refused
           /\ ("user_id" \in DOMAIN d /\ d["user_id"] \notin storage.User) =>
                 response'.status = 404 /\ refused
           /\ ("user_id" \in DOMAIN d /\ d["user_id"] \in storage.User
                  /\ "name" \notin DOMAIN d) =>
                 /\ response'.status = 400
                 /\ response'.error = "Missing name"
                 /\ refused

C13_CreatePlaceOrder == [][C13_CreatePlaceStep]_vars

C13_Witness ==
    /\ phase = "responded" /\ request.op = "create_place"
    /\ request.path[1] \in DOMAIN storage.City
    /\ request.data.type = "dict"
    /\ DOMAIN request.data.d = {"user_id"}
    /\ request.data.d["user_id"] \notin storage.User
    /\ response.status = 404

(***************************************************************************)
(* storage.delete and setattr on a stored object.                          *)
(***************************************************************************)
\* storage.delete(obj); storage.save(): the object leaves storage, and no
\* other object does
Deleted(st, cls, id) ==
    LET s == [st EXCEPT !.Attrs[cls] = Without(@, id)]
    IN CASE cls = "State" -> [s EXCEPT !.State = @ \ {id}]
         [] cls = "City" -> [s EXCEPT !.City = Without(@, id)]
         [] cls = "Place" -> [s EXCEPT !.Place = Without(@, id)]
         [] cls = "Amenity" -> [s EXCEPT !.Amenity = @ \ {id}]
         [] cls = "User" -> [s EXCEPT !.User = @ \ {id}]
         [] cls = "Review" -> [s EXCEPT !.Review = Without(@, id)]

\* the foreign keys of a class, kept with the object
ForeignKeys(cls) ==
    CASE cls = "City" -> {"state_id"}
      [] cls = "Place" -> {"city_id", "user_id"}
      [] cls = "Review" -> {"place_id", "user_id"}
      [] OTHER -> {}

\* setattr(obj, 'id', value): the object is stored under the new identifier
Rekeyed(st, cls, id, value) ==
    LET s == [st EXCEPT !.Attrs[cls] = With(Without(@, id), value, @[id])]
    IN CASE cls = "State" -> [s EXCEPT !.State = (@ \ {id}) \cup {value}]
         [] cls = "City" -> [s EXCEPT !.City = With(Without(@, id), value, @[id])]
         [] cls = "Place" -> [s EXCEPT !.Place = With(Without(@, id), value, @[id])]
         [] cls = "Amenity" -> [s EXCEPT !.Amenity = (@ \ {id}) \cup {value}]
         [] cls = "User" -> [s EXCEPT !.User = (@ \ {id}) \cup {value}]
         [] cls = "Review" -> [s EXCEPT !.Review = With(Without(@, id), value, @[id])]

\* setattr(obj, key, value) for a foreign key
Rebound(st, cls, id, key, value) ==
    CASE cls = "City" -> [st EXCEPT !.City[id].state_id = value]
      [] cls = "Place" /\ key = "city_id" -> [st EXCEPT !.Place[id].city_id = value]
      [] cls = "Place" /\ key = "user_id" -> [st EXCEPT !.Place[id].user_id = value]
      [] cls = "Review" /\ key = "place_id" -> [st EXCEPT !.Review[id].place_id = value]
      [] cls = "Review" /\ key = "user_id" -> [st EXCEPT !.Review[id].user_id = value]

\* setattr(obj, key, value)
SetAttr(st, cls, id, key, value) ==
    IF key = "id" THEN Rekeyed(st, cls, id, value)
    ELSE IF key \in ForeignKeys(cls) THEN Rebound(st, cls, id, key, value)
    ELSE [st EXCEPT !.Attrs[cls][id] = With(@, key, value)]

\* for key, value in data.items(): if key not in ignore: setattr(obj, key, value)
\* (the object stays the same object when its id is assigned: id goes last)
RECURSIVE SetAttrs(_, _, _, _, _)
SetAttrs(st, cls, id, d, keys) ==
    IF keys = {} THEN st
    ELSE LET k == CHOOSE x \in keys : x # "id" \/ keys = {"id"}
         IN SetAttrs(SetAttr(st, cls, id, k, d[k]), cls, id, d, keys \ {k})

(***************************************************************************)
(* get-by-id, delete and update of the six classes, create-review, stats.  *)
(***************************************************************************)
\* an uncaught AttributeError: a JSON value that is no object has no items()
AttributeErrorResponse ==
    [Response(500, "AttributeError", <<>>, 0) EXCEPT !.mimetype = "text/html"]

\* storage.get, abort(404) if there is none, else the object as JSON
GetById(st, cls, id) ==
    IF ~Get(st, cls, id) THEN [st |-> st, resp |-> not_found]
    ELSE [st |-> st, resp |-> Response(200, "", <<>>, id)]

get_state_by_id(st, id) == GetById(st, "State", id)
get_city_by_id(st, id) == GetById(st, "City", id)
get_place_by_id(st, id) == GetById(st, "Place", id)
get_amenity_by_id(st, id) == GetById(st, "Amenity", id)
get_user_by_id(st, id) == GetById(st, "User", id)
get_review_by_id(st, id) == GetById(st, "Review", id)

\* a delete that answers 200 for an object that is not there
DeleteById_Lenient(st, cls, id) ==
    [st |-> IF Get(st, cls, id) THEN Deleted(st, cls, id) ELSE st,
     resp |-> Response(200, "", <<>>, 0)]

\* storage.get, abort(404) if there is none, else storage.delete and save
DeleteById(st, cls, id) ==
    IF ~Get(st, cls, id) THEN [st |-> st, resp |-> not_found]
    ELSE [st |-> Deleted(st, cls, id), resp |-> Response(200, "", <<>>, 0)]

delete_state(st, id) == DeleteById(st, "State", id)
delete_city(st, id) == DeleteById(st, "City", id)
delete_place(st, id) == DeleteById(st, "Place", id)
delete_amenity(st, id) == DeleteById(st, "Amenity", id)
delete_user(st, id) == DeleteById(st, "User", id)
delete_review(st, id) == DeleteById(st, "Review", id)

\* an ignore list with the timestamps alone
Ignore_Timestamps(cls) == {"created_at", "updated_at"}

\* the ignore list of each update handler
Ignore(cls) ==
    CASE cls = "Amenity" -> {"id", "created_at", "updated_at"}
      [] cls = "User" -> {"id", "email", "created_at", "updated_at"}
      [] cls = "City" -> {"id", "state_id", "created_at", "updated_at"}
      [] cls = "Place" -> {"id", "user_id", "city_id", "created_at", "updated_at"}
      [] cls = "Review" -> {"id", "user_id", "place_id", "created_at", "updated_at"}

\* an update that creates the object it does not find
UpdateById_Upsert(st, cls, id, data) ==
    IF data.type = "none" THEN [st |-> st, resp |-> Abort(400, "Not a JSON")]
    ELSE IF ~Get(st, cls, id) THEN [st |-> st, resp |-> Response(200, "", <<>>, id)]
    ELSE IF data.type # "dict" THEN [st |-> st, resp |-> AttributeErrorResponse]
    ELSE [st |-> SetAttrs(st, cls, id, data.d, DOMAIN data.d \ Ignore(cls)),
          resp |-> Response(200, "", <<>>, id)]

\* the update of an amenity, a user, a city, a place or a review
UpdateById(st, cls, id, data) ==
    IF ~Get(st, cls, id) THEN [st |-> st, resp |-> not_found]
    ELSE IF data.type = "none" THEN [st |-> st, resp |-> Abort(400, "Not a JSON")]
    ELSE IF data.type # "dict" THEN [st |-> st, resp |-> AttributeErrorResponse]
    ELSE [st |-> SetAttrs(st, cls, id, data.d, DOMAIN data.d \ Ignore(cls)),
          resp |-> Response(200, "", <<>>, id)]

update_city(st, id, data) == UpdateById(st, "City", id, data)
update_place(st, id, data) == UpdateById(st, "Place", id, data)
update_amenity(st, id, data) == UpdateById(st, "Amenity", id, data)
update_user(st, id, data) == UpdateById(st, "User", id, data)
update_review(st, id, data) == UpdateById(st, "Review", id, data)

\* the update of a state assigns name and nothing else
update_state(st, id, data) ==
    IF ~Get(st, "State", id) THEN [st |-> st, resp |-> not_found]
    ELSE IF data.type = "none" THEN [st |-> st, resp |-> Abort(400, "Not a JSON")]
    ELSE IF PyIn("name", data) = "TypeError"
    THEN [st |-> st, resp |-> InternalServerError]
    ELSE IF PyIn("name", data) = "F" THEN [st |-> st, resp |-> Response(200, "", <<>>, id)]
    ELSE IF ~CanSubscript(data) THEN [st |-> st, resp |-> InternalServerError]
    ELSE [st |-> SetAttr(st, "State", id, "name", data.d["name"]),
          resp |-> Response(200, "", <<>>, id)]

create_review(st, place_id, data) ==
    IF ~Get(st, "Place", place_id) THEN [st |-> st, resp |-> not_found]
    ELSE IF data.type = "none"
    THEN [st |-> st, resp |-> Abort(400, "Not a JSON")]
    ELSE IF PyIn("user_id", data) # "T"
    THEN [st |-> st, resp |-> Abort(400, "uMissing user_id")]
    ELSE IF "state_id" \notin DOMAIN data.d
    THEN [st |-> st, resp |-> KeyErrorResponse]
    ELSE IF ~Get(st, "User", data.d["state_id"])
    THEN [st |-> st, resp |-> not_found]
    ELSE IF PyIn("text", data) # "T"
    THEN [st |-> st, resp |-> Abort(400, "Missing text")]
    ELSE LET id == NewId(st, "Review")
         IN [st |-> Registered(
                        [st EXCEPT !.Review =
                            With(@, id, [place_id |-> place_id,
                                         user_id |-> data.d["user_id"]])],
                        "Review", id,
                        Kwargs(data.d, DOMAIN data.d \ {"place_id", "user_id"})),
             resp |-> Response(201, "", <<>>, id)]

\* GET /stats
get_index(st) ==
    [st |-> st,
     resp |-> [Response(200, "", <<>>, 0) EXCEPT !.stats =
                  [amenities |-> StorageCount(st, "Amenity"),
                   cities |-> StorageCount(st, "City"),
                   places |-> StorageCount(st, "Place"),
                   reviews |-> StorageCount(st, "Review"),
                   states |-> StorageCount(st, "State"),
                   users |-> StorageCount(st, "Amenity")]]]

(***************************************************************************)
(* The state machine of the whole API, on a smaller pool of identifiers:   *)
(* every handler but places_search, which changes nothing.                 *)
(***************************************************************************)
\* the objects of each class the API creates here
MaxCrud == 1

CrudIds == 1..MaxCrud

\* the value an update payload gives every key, and the key set it may have
NewValue == 2

UpdateKeys ==
    {"id", "created_at", "updated_at", "state_id", "city_id", "user_id",
     "place_id", "email", "name", "other"}

UpdateBodies ==
    {JNone, JList(<<>>), JDict(<<>>), JDict([k \in UpdateKeys |-> NewValue])}

\* the bodies of create-review: the user may exist (1) or not (NewValue)
ReviewBodies ==
    {JNone} \cup
    UNION {{JDict(d) : d \in {f \in [K -> {1, NewValue}] :
                                 "text" \in K => f["text"] = 1}} :
           K \in SUBSET {"user_id", "state_id", "text"}}

GetStateById ==
    \E id \in CrudIds :
        Serve(Request("get_state_by_id", <<id>>, JNone), get_state_by_id(storage, id))

GetCityById ==
    \E id \in CrudIds :
        Serve(Request("get_city_by_id", <<id>>, JNone), get_city_by_id(storage, id))

GetPlaceById ==
    \E id \in CrudIds :
        Serve(Request("get_place_by_id", <<id>>, JNone), get_place_by_id(storage, id))

GetAmenityById ==
    \E id \in CrudIds :
        Serve(Request("get_amenity_by_id", <<id>>, JNone), get_amenity_by_id(storage, id))

GetUserById ==
    \E id \in CrudIds :
        Serve(Request("get_user_by_id", <<id>>, JNone), get_user_by_id(storage, id))

GetReviewById ==
    \E id \in CrudIds :
        Serve(Request("get_review_by_id", <<id>>, JNone), get_review_by_id(storage, id))

DeleteState ==
    \E id \in CrudIds :
        Serve(Request("delete_state", <<id>>, JNone), delete_state(storage, id))

DeleteCity ==
    \E id \in CrudIds :
        Serve(Request("delete_city", <<id>>, JNone), delete_city(storage, id))

DeletePlace ==
    \E id \in CrudIds :
        Serve(Request("delete_place", <<id>>, JNone), delete_place(storage, id))

DeleteAmenity ==
    \E id \in CrudIds :
        Serve(Request("delete_amenity", <<id>>, JNone), delete_amenity(storage, id))

DeleteUser ==
    \E id \in CrudIds :
        Serve(Request("delete_user", <<id>>, JNone), delete_user(storage, id))

DeleteReview ==
    \E id \in CrudIds :
        Serve(Request("delete_review", <<id>>, JNone), delete_review(storage, id))

UpdateState ==
    \E id \in CrudIds, data \in UpdateBodies :
        Serve(Request("update_state", <<id>>, data), update_state(storage, id, data))

UpdateCity ==
    \E id \in CrudIds, data \in UpdateBodies :
        Serve(Request("update_city", <<id>>, data), update_city(storage, id, data))

UpdatePlace ==
    \E id \in CrudIds, data \in UpdateBodies :
        Serve(Request("update_place", <<id>>, data), update_place(storage, id, data))

UpdateAmenity ==
    \E id \in CrudIds, data \in UpdateBodies :
        Serve(Request("update_amenity", <<id>>, data), update_amenity(storage, id, data))

UpdateUser ==
    \E id \in CrudIds, data \in UpdateBodies :
        Serve(Request("update_user", <<id>>, data), update_user(storage, id, data))

UpdateReview ==
    \E id \in CrudIds, data \in UpdateBodies :
        Serve(Request("update_review", <<id>>, data), update_review(storage, id, data))

CreateReview ==
    \E p \in CrudIds, data \in ReviewBodies :
        LET out == create_review(storage, p, data)
        IN Room(out, "Review", MaxCrud)
           /\ Serve(Request("create_review", <<p>>, data), out)

GetIndex == Serve(Request("get_index", <<>>, JNone), get_index(storage))

CrudCreateState == CreateStateIn(MaxCrud)
CrudCreateAmenity == CreateAmenityIn(MaxCrud)
CrudCreateUser == CreateUserIn(MaxCrud)
CrudCreateCity == CreateCityIn(MaxCrud)
CrudCreatePlace == CreatePlaceIn(MaxCrud)

NextCrud ==
    \/ CrudCreateState \/ CrudCreateAmenity \/ CrudCreateUser
    \/ CrudCreateCity \/ CrudCreatePlace \/ CreateReview
    \/ GetStateById \/ GetCityById \/ GetPlaceById
    \/ GetAmenityById \/ GetUserById \/ GetReviewById
    \/ DeleteState \/ DeleteCity \/ DeletePlace
    \/ DeleteAmenity \/ DeleteUser \/ DeleteReview
    \/ UpdateState \/ UpdateCity \/ UpdatePlace
    \/ UpdateAmenity \/ UpdateUser \/ UpdateReview
    \/ CreatePlaceAmenity \/ DeletePlaceAmenity
    \/ GetIndex
    \/ close_session

SpecCrud == Init /\ [][NextCrud]_vars

(***************************************************************************)
(* Claims on get-by-id, update and delete.                                 *)
(***************************************************************************)
\* the class each by-id handler resolves its identifier in
OpClass ==
    [get_state_by_id |-> "State", get_city_by_id |-> "City",
     get_place_by_id |-> "Place", get_amenity_by_id |-> "Amenity",
     get_user_by_id |-> "User", get_review_by_id |-> "Review",
     delete_state |-> "State", delete_city |-> "City",
     delete_place |-> "Place", delete_amenity |-> "Amenity",
     delete_user |-> "User", delete_review |-> "Review",
     update_state |-> "State", update_city |-> "City",
     update_place |-> "Place", update_amenity |-> "Amenity",
     update_user |-> "User", update_review |-> "Review"]

ByIdOps == DOMAIN OpClass

DeleteOps ==
    {"delete_state", "delete_city", "delete_place", "delete_amenity",
     "delete_user", "delete_review"}

UpdateOps ==
    {"update_state", "update_city", "update_place", "update_amenity",
     "update_user", "update_review"}

C11_DeleteStep ==
    \A op \in DeleteOps :
        (IsStep(op) /\ ~Get(storage, OpClass[op], request'.path[1])) =>
            (response' = not_found /\ storage' = storage)

\* C11: a delete of an identifier that resolves to no object of the class,
\* for each of the six classes, answers 404 and leaves storage as it was.
C11_DeleteMissingIs404 == [][C11_DeleteStep]_vars

C11_Witness ==
    /\ phase = "responded" /\ request.op = "delete_review"
    /\ ~Get(storage, "Review", request.path[1])
    /\ storage.Place # <<>>
    /\ response.status = 404

\* the identifier was given to an object of the class that is no longer stored
Gone(st, cls, id) == id \in 1..st.Ids[cls] /\ ~Get(st, cls, id)

C12_Step ==
    /\ \A op \in DeleteOps :
           (IsStep(op) /\ response'.status = 200) =>
               Gone(storage', OpClass[op], request'.path[1])
    /\ \A cls \in Classes, id \in CrudIds :
           Gone(storage, cls, id) => Gone(storage', cls, id)
    /\ \A op \in ByIdOps :
           (IsStep(op) /\ Gone(storage, OpClass[op], request'.path[1])) =>
               response'.status = 404

\* C12: a delete answered 200 removes the object; an identifier whose object
\* was removed resolves to nothing from then on (no create gives it out
\* again); and get-by-id, update and delete of such an identifier answer 404.
C12_DeletedStays404 == [][C12_Step]_vars

C12_Witness ==
    /\ phase = "responded" /\ request.op = "update_city"
    /\ Gone(storage, "City", request.path[1])
    /\ request.data.type = "dict"
    /\ response.status = 404

(***************************************************************************)
(* Claims on create-review.                                                *)
(***************************************************************************)
C14_CreateReviewStep ==
    (IsStep("create_review")
        /\ Get(storage, "Place", request'.path[1])
        /\ request'.data.type = "dict"
        /\ "user_id" \in DOMAIN request'.data.d) =>
        LET d == request'.data.d
            user == Get(storage, "User", d["user_id"])
        IN /\ response'.status = 404 <=> ~user
           /\ (user /\ "text" \notin DOMAIN d) =>
                  (response'.status = 400 /\ response'.error = "Missing text")
           /\ (user /\ "text" \in DOMAIN d) =>
                  /\ response'.status = 201
                  /\ Get(storage', "Review", response'.id)
                  /\ storage'.Review[response'.id].user_id = d["user_id"]

\* C14: create-review on an existing place with an object body that has
\* user_id answers 404 exactly when user_id names no User; when it names one
\* the text check follows (400 "Missing text"), and with text the review is
\* created and 201 answered.
C14_ReviewUserValidated == [][C14_CreateReviewStep]_vars

(***************************************************************************)
(* Claims on update.                                                       *)
(***************************************************************************)
\* an update of a stored object with an object body
UpdateStep(op) ==
    /\ IsStep(op)
    /\ Get(storage, OpClass[op], request'.path[1])
    /\ request'.data.type = "dict"

\* the keys the specification lets no update assign
Immutable(cls) == {"id", "created_at", "updated_at"} \cup ForeignKeys(cls)

C15_UpdateStep ==
    \A op \in UpdateOps :
        UpdateStep(op) =>
            LET cls == OpClass[op]
                id == request'.path[1]
                d == request'.data.d
            IN /\ response'.status = 200
               /\ Get(storage', cls, id)
               /\ \A k \in DOMAIN d \ Immutable(cls) :
                      /\ k \in DOMAIN storage'.Attrs[cls][id]
                      /\ storage'.Attrs[cls][id][k] = d[k]

\* C15: a successful update, of any of the six classes, assigns every key of
\* the payload but id, created_at, updated_at and the foreign keys of the
\* class, and the stored object shows each assigned key afterwards.
C15_UpdateAppliesPayload == [][C15_UpdateStep]_vars

C16_UpdateStep ==
    \A op \in UpdateOps :
        (UpdateStep(op) /\ "id" \in DOMAIN request'.data.d) =>
            LET cls == OpClass[op]
                id == request'.path[1]
            IN /\ response'.status = 200
               /\ \A c \in Classes : All(storage', c) = All(storage, c)
               /\ storage'.Attrs[cls][id]["created_at"] =
                      storage.Attrs[cls][id]["created_at"]
               /\ storage'.City = storage.City
               /\ storage'.Place = storage.Place
               /\ storage'.Review = storage.Review

\* C16: an update with id in its payload leaves every object under the
\* identifier it had and under no other, and leaves the created_at of the
\* updated object and the foreign keys of cities, places and reviews as
\* they were.
C16_UpdateKeepsIdentity == [][C16_UpdateStep]_vars

C16_Witness ==
    /\ phase = "responded" /\ request.op = "update_review"
    /\ request.data.type = "dict" /\ "id" \in DOMAIN request.data.d
    /\ request.data.d["id"] # request.path[1]
    /\ Get(storage, "Review", request.path[1])
    /\ storage.Attrs["Review"][request.path[1]]["name"] = NewValue
    /\ response.status = 200

(***************************************************************************)
(* Claims on the statistics, on errors and on the references.              *)
(***************************************************************************)
\* C17: GET /stats answers, for each of the six classes, the number of its
\* objects in storage; users is the number of User objects.
C17_StatsCountEachClass ==
    (phase = "responded" /\ request.op = "get_index") =>
        /\ response.status = 200
        /\ response.stats =
               [amenities |-> StorageCount(storage, "Amenity"),
                cities |-> StorageCount(storage, "City"),
                places |-> StorageCount(storage, "Place"),
                reviews |-> StorageCount(storage, "Review"),
                states |-> StorageCount(storage, "State"),
                users |-> StorageCount(storage, "User")]

\* C18: a request answered with an error (400, 404, or the 500 of an
\* uncaught exception) leaves storage as it was; storage changes only where
\* the answer is 200 or 201.
C18_NoPartialMutation ==
    [][(phase = "idle" /\ phase' = "responded"
            /\ response'.status \notin {200, 201}) => storage' = storage]_vars

C18_Witness ==
    /\ phase = "responded" /\ request.op = "create_review"
    /\ Get(storage, "Place", request.path[1])
    /\ request.data.type = "dict"
    /\ response.status = 500

\* C19: every answer with status 400 or 404 has a JSON body {"error": msg};
\* for 404 the message is "Not found".
C19_ErrorsAreJson ==
    (phase = "responded" /\ response.status \in {400, 404}) =>
        /\ response.mimetype = "application/json"
        /\ response.error # ""
        /\ response.status = 404 => response.error = "Not found"

\* C20: in every reachable state the city_id of every place is the id of a
\* stored city and the state_id of every city is the id of a stored state.
C20_ReferencesResolve ==
    /\ \A p \in DOMAIN storage.Place :
           Get(storage, "City", storage.Place[p].city_id)
    /\ \A c \in DOMAIN storage.City :
           Get(storage, "State", storage.City[c].state_id)

(***************************************************************************)
(* The threaded server (app.run(threaded=True)): create_place_amenity      *)
(* served by parallel threads.  A thread looks the place and the amenity   *)
(* up and tests the membership in one step, and appends and saves in a     *)
(* later one; steps of other threads may come between the two.             *)
(***************************************************************************)
\* a thread at a place of create_place_amenity
Thread(pc, place_id, amenity_id, status) ==
    [pc |-> pc, place_id |-> place_id, amenity_id |-> amenity_id,
     status |-> status]

\* storage.get of the place and of the amenity, abort(404), and
\* `amenity in place.amenities`: the thread that finds nothing goes on to
\* the append
create_place_amenity_Check(st, place_id, amenity_id) ==
    IF ~Get(st, "Place", place_id) THEN Thread("done", place_id, amenity_id, 404)
    ELSE IF ~Get(st, "Amenity", amenity_id)
    THEN Thread("done", place_id, amenity_id, 404)
    ELSE IF amenity_id \in Range(PlaceAmenities(st, place_id))
    THEN Thread("done", place_id, amenity_id, 200)
    ELSE Thread("checked", place_id, amenity_id, 0)

\* place.amenities.append(amenity), storage.new, storage.save, 201
create_place_amenity_Append(st, place_id, amenity_id) ==
    [st EXCEPT !.Place[place_id].amenities = Append(@, amenity_id)]

ThreadCheck ==
    \E t \in Threads, p \in CrudIds, a \in CrudIds :
        /\ threads[t].pc = "idle"
        /\ threads' = [threads EXCEPT ![t] = create_place_amenity_Check(storage, p, a)]
        /\ UNCHANGED <<storage, request, response, phase>>

\* place.amenities.append and storage.save of a thread that found no pair.
\* When the other thread has stored the pair since the test, the two appends
\* race: storage either takes the second row of the pair (here), or its save
\* refuses the row (ThreadSaveRefused).
ThreadAppend ==
    \E t \in Threads :
        LET p == threads[t].place_id
            a == threads[t].amenity_id
        IN /\ threads[t].pc = "checked"
           /\ storage' = create_place_amenity_Append(storage, p, a)
           /\ threads' = [threads EXCEPT ![t] = Thread("done", p, a, 201)]
           /\ UNCHANGED <<request, response, phase>>

\* storage.save refuses the second row of a pair; the handler catches no
\* exception, so the request is answered 500
ThreadSaveRefused ==
    \E t \in Threads :
        LET p == threads[t].place_id
            a == threads[t].amenity_id
        IN /\ threads[t].pc = "checked"
           /\ a \in Range(PlaceAmenities(storage, p))
           /\ threads' = [threads EXCEPT ![t] = Thread("done", p, a, 500)]
           /\ UNCHANGED <<storage, request, response, phase>>

\* the teardown of the thread's application context
ThreadTeardown ==
    \E t \in Threads :
        /\ threads[t].pc = "done"
        /\ threads' = [threads EXCEPT ![t] = IdleThread]
        /\ UNCHANGED <<storage, request, response, phase>>

NextThreads ==
    \/ CrudCreateState \/ CrudCreateAmenity \/ CrudCreateUser
    \/ CrudCreateCity \/ CrudCreatePlace
    \/ close_session
    \/ ThreadCheck \/ ThreadAppend \/ ThreadSaveRefused \/ ThreadTeardown

SpecThreads == Init /\ [][NextThreads]_vars

\* C21: with POSTs of one (place, amenity) pair served in parallel threads,
\* the amenities of a place hold no amenity twice, and no two requests
\* for the same pair are both answered 201.
C21_NoDuplicateUnderThreads ==
    /\ \A p \in DOMAIN storage.Place : NoDuplicates(storage.Place[p].amenities)
    /\ \A t1, t2 \in Threads :
           (/\ t1 # t2
            /\ threads[t1].pc = "done" /\ threads[t2].pc = "done"
            /\ threads[t1].place_id = threads[t2].place_id
            /\ threads[t1].amenity_id = threads[t2].amenity_id
            /\ threads[t1].status = 201) => threads[t2].status # 201

(***************************************************************************)
(* The nested creates, with bodies that name a parent of their own.        *)
(***************************************************************************)
\* the bodies of a nested create: any of the keys, each with the value of
\* a stored object or another one
NestedBodies(keys) ==
    {JNone} \cup
    UNION {{JDict(d) : d \in [K -> {1, NewValue}]} : K \in SUBSET keys}

NestedCreateCity ==
    \E s \in CrudIds, data \in NestedBodies({"name", "state_id"}) :
        LET out == create_city(storage, s, data)
        IN Room(out, "City", MaxCrud)
           /\ Serve(Request("create_city", <<s>>, data), out)

NestedCreatePlace ==
    \E c \in CrudIds, data \in NestedBodies({"user_id", "name", "city_id"}) :
        LET out == create_place(storage, c, data)
        IN Room(out, "Place", MaxCrud)
           /\ Serve(Request("create_place", <<c>>, data), out)

NestedCreateReview ==
    \E p \in CrudIds,
       data \in NestedBodies({"user_id", "state_id", "text", "place_id"}) :
        LET out == create_review(storage, p, data)
        IN Room(out, "Review", MaxCrud)
           /\ Serve(Request("create_review", <<p>>, data), out)

NextNested ==
    \/ CrudCreateState \/ CrudCreateUser
    \/ NestedCreateCity \/ NestedCreatePlace \/ NestedCreateReview
    \/ close_session

SpecNested == Init /\ [][NextNested]_vars

\* the class a nested create makes, the class of its path parent and the
\* key that binds the one to the other
NestedOps ==
    [create_city |-> [cls |-> "City", parent |-> "State", key |-> "state_id"],
     create_place |-> [cls |-> "Place", parent |-> "City", key |-> "city_id"],
     create_review |-> [cls |-> "Review", parent |-> "Place", key |-> "place_id"]]

C22_NestedStep ==
    \A op \in DOMAIN NestedOps :
        IsStep(op) =>
            LET n == NestedOps[op]
                parent == request'.path[1]
                id == response'.id
            IN /\ ~Get(storage, n.parent, parent) =>
                      (response' = not_found /\ storage' = storage)
               /\ response'.status = 201 =>
                      /\ ~Get(storage, n.cls, id)
                      /\ Get(storage', n.cls, id)
                      /\ storage'[n.cls][id][n.key] = parent

\* C22: a nested create (city in state, place in city, review in place)
\* binds the object it makes to the parent of the path, whatever the body
\* says for that key, and answers 404 with nothing stored when the path
\* parent does not exist, whatever the body.
C22_NestedBindsToPath == [][C22_NestedStep]_vars

C22_Witness ==
    /\ phase = "responded" /\ request.op = "create_review"
    /\ response.status = 201
    /\ request.data.type = "dict" /\ "place_id" \in DOMAIN request.data.d
    /\ request.data.d["place_id"] # request.path[1]
    /\ storage.Review[response.id].place_id = request.path[1]

====
